---- MODULE Spec2Model ----
(***************************************************************************)
(* s3-version-restore: point-in-time recovery of a versioned S3 bucket.    *)
(*                                                                         *)
(* The model covers the version-listing iterator of s3/client.go           *)
(* (ObjectVersionMap.Add, Client.List, ListIterator.Next, firstMapKey),    *)
(* the two mutating calls (Client.Copy, Client.Delete) and the restore     *)
(* loop of main.  The bucket is the backend: every key holds its version   *)
(* stack in creation order; ListObjectVersions pages over it in ascending  *)
(* key order, newest version first inside a key.                           *)
(***************************************************************************)
EXTENDS Naturals, Sequences, FiniteSets

\* ------------------------------------------------------------------ bounds
\* Largest LastModified value of a record that exists before the first run.
MaxT == 2
\* Largest number of records of one key before the first run.
MaxLen == 2
\* Largest number of records of the whole bucket before the first run.
MaxRecords == 3
\* Number of distinct content fingerprints.
NumETags == 2
\* Number of runs of the tool that are followed.
MaxRuns == 2
\* MaxKeys of a ListObjectVersions request: the most entries one page carries
\* (10000 in the request of ListIterator.Next, scaled down).
MaxKeys == 2

\* Largest number of records an ObjectVersionMap holds when Add is called in
\* arbitrary order.
MaxAdds == 3

\* Keys are strings over a two-letter alphabet: "a", "aa", "ab", "b".
AllKeys == {<<1>>, <<1, 1>>, <<1, 2>>, <<2>>}
\* The keys that hold records in the buckets with arbitrary version stacks.
CoreKeys == {<<1>>, <<1, 1>>, <<2>>}
\* Values of the -prefix flag that are tried: "" (the default) and "a".
Prefixes == {<<>>, <<1>>}
\* A nil *string (prefix, KeyMarker, VersionIdMarker of the request).
Nil == <<>>
NilVersion == 0

ETags == 1..NumETags
\* The ETag of a delete marker and of the zero ObjectVersion: "".
NoETag == 0
\* Reference timestamps that are tried.
Refs == 1..(MaxT + 1)
\* The backend clock never passes MaxNow.
MaxNow == MaxT + 1

OperationTypePut == "PUT"
OperationTypeDelete == "DELETE"

ZeroObjectVersion ==
    [VersionID |-> 0, Operation |-> "", Timestamp |-> 0, IsLatest |-> FALSE, ETag |-> NoETag]

VARIABLES
    bucket,                  \* backend: key -> version stack, oldest first
    now,                     \* backend clock: LastModified of the next new record
    prefix,                  \* main: the -prefix flag
    referenceTimestamp,      \* main: the parsed RFC3339 argument
    run,                     \* which run of the tool this is
    pc,                      \* main: "next", "check", "mutate", "done", "failed"
    itPrefix,                \* ListIterator.prefix
    loadMore,                \* ListIterator.loadMore
    keyMarker,               \* ListIterator.keyMarker
    versionIdMarker,         \* ListIterator.versionIdMarker
    pageObjectsWithVersions, \* ListIterator.pageObjectsWithVersions
    key,                     \* main: key returned by Next
    versions,                \* main: history returned by Next
    versionAtTimestamp,      \* main
    latestVersion,           \* main
    bucket0,                 \* the bucket when the current run started
    firstRef,                \* referenceTimestamp of the first run
    orig,                    \* the bucket before the first run
    firstStart,              \* backend clock when the first run started
    emitted,                 \* keys returned by Next in the current run, in order
    log,                     \* decisions of the current run, in order
    spanned,                 \* keys whose records came in two or more pages of this run
    lastPage,                \* keys of the entries of the newest page of this run
    lastReq,                 \* cursors of the newest answered request of this run
    lastResp,                \* flag and cursors of the newest response of this run
    again                    \* outcome of a call of Next made after end-of-sequence

vars == <<bucket, now, prefix, referenceTimestamp, run, pc, itPrefix, loadMore,
          keyMarker, versionIdMarker, pageObjectsWithVersions, key, versions,
          versionAtTimestamp, latestVersion, bucket0, firstRef, orig, firstStart, again,
          lastReq, lastResp, emitted, log, spanned, lastPage>>

\* ------------------------------------------------------------ helpers
Min(a, b) == IF a < b THEN a ELSE b

RECURSIVE KeyLess(_, _)
\* Go's < on strings: bytewise lexicographic order.
KeyLess(a, b) ==
    IF a = <<>> THEN b # <<>>
    ELSE IF b = <<>> THEN FALSE
    ELSE IF a[1] # b[1] THEN a[1] < b[1]
    ELSE KeyLess(Tail(a), Tail(b))

\* strings.HasPrefix as the backend applies it to the Prefix of a request.
HasPrefix(k, p) == Len(p) <= Len(k) /\ SubSeq(k, 1, Len(p)) = p

\* ------------------------------------------------------------ backend
\* A record of the backend: versionID is its index in the key's stack and the
\* latest record is the top of the stack.
PutRecords == [Operation : {OperationTypePut}, Timestamp : 1..MaxT, ETag : ETags]
DeleteRecords == [Operation : {OperationTypeDelete}, Timestamp : 1..MaxT, ETag : {NoETag}]
Records == PutRecords \cup DeleteRecords

\* LastModified never decreases along the stack of a key.
Monotonic(h) == \A i \in 1..Len(h) : \A j \in i..Len(h) : h[i].Timestamp <= h[j].Timestamp

Stacks == UNION {{h \in [1..n -> Records] : Monotonic(h)} : n \in 0..MaxLen}

RECURSIVE SumLen(_, _)
SumLen(b, ks) ==
    IF ks = {} THEN 0
    ELSE LET k == CHOOSE x \in ks : TRUE IN Len(b[k]) + SumLen(b, ks \ {k})

\* Buckets of up to MaxRecords records with arbitrary stacks on the core keys.
CoreBuckets ==
    {[k \in AllKeys |-> IF k \in CoreKeys THEN c[k] ELSE <<>>] :
        c \in {x \in [CoreKeys -> Stacks] : SumLen(x, CoreKeys) <= MaxRecords}}

\* The stacks of the buckets in which every key may hold records: none, one
\* put, or a put followed by a delete marker.
WideStacks ==
    {<<>>,
     <<[Operation |-> OperationTypePut, Timestamp |-> 1, ETag |-> 1]>>,
     <<[Operation |-> OperationTypePut, Timestamp |-> 1, ETag |-> 1],
       [Operation |-> OperationTypeDelete, Timestamp |-> MaxT, ETag |-> NoETag]>>}

WideBuckets == [AllKeys -> WideStacks]

Timestamps(b) == UNION {{b[k][i].Timestamp : i \in 1..Len(b[k])} : k \in AllKeys}

\* The LastModified of the newest record of the bucket (1 for an empty bucket).
MaxTimestamp(b) ==
    IF Timestamps(b) = {} THEN 1
    ELSE CHOOSE t \in Timestamps(b) : \A u \in Timestamps(b) : u <= t

\* One entry of a ListObjectVersions response for record i of key k.
Entry(b, k, i) ==
    [Key |-> k, VersionId |-> i, LastModified |-> b[k][i].Timestamp,
     IsLatest |-> (i = Len(b[k])), ETag |-> b[k][i].ETag,
     IsDeleteMarker |-> (b[k][i].Operation = OperationTypeDelete)]

\* The entries of one key, newest version first.
KeyEntries(b, k) == [i \in 1..Len(b[k]) |-> Entry(b, k, Len(b[k]) + 1 - i)]

\* The keys in ascending order.
KeyOrder ==
    CHOOSE s \in [1..Cardinality(AllKeys) -> AllKeys] :
        \A i \in DOMAIN s : \A j \in DOMAIN s : i < j => KeyLess(s[i], s[j])

RECURSIVE ListingFrom(_, _, _)
\* The entries of the keys of ks that stand at place i or later in the order.
ListingFrom(b, ks, i) ==
    IF i > Len(KeyOrder) THEN <<>>
    ELSE (IF KeyOrder[i] \in ks THEN KeyEntries(b, KeyOrder[i]) ELSE <<>>)
         \o ListingFrom(b, ks, i + 1)

\* The entries of the keys of ks: ascending key order, newest version first.
ListingOf(b, ks) == ListingFrom(b, ks, 1)

\* The whole listing of the bucket under a request prefix: ascending key order.
Listing(b, p) == ListingOf(b, {k \in AllKeys : HasPrefix(k, p)})

\* The entries that follow the (KeyMarker, VersionIdMarker) position.
AfterMarker(l, km, vm) ==
    IF km = Nil THEN l
    ELSE SelectSeq(l, LAMBDA e : KeyLess(km, e.Key) \/ (e.Key = km /\ e.VersionId < vm))

IsPut(e) == ~e.IsDeleteMarker
IsMarker(e) == e.IsDeleteMarker

\* A backend that answers every request with an empty truncated page and the
\* cursor of the request.
ListObjectVersionsNoProgress(b, p, km, vm) ==
    {[Versions |-> <<>>, DeleteMarkers |-> <<>>, IsTruncated |-> TRUE,
      NextKeyMarker |-> km, NextVersionIdMarker |-> vm]}

\* The responses the backend can give to one ListObjectVersions request: a page
\* holds between 1 and MaxKeys entries (none only when nothing is left).
ListObjectVersions(b, p, km, vm) ==
    LET rest == AfterMarker(Listing(b, p), km, vm)
        sizes == IF rest = <<>> THEN {0} ELSE 1..Min(MaxKeys, Len(rest))
    IN {LET page == SubSeq(rest, 1, n)
            truncated == n < Len(rest)
        IN [Versions |-> SelectSeq(page, IsPut),
            DeleteMarkers |-> SelectSeq(page, IsMarker),
            IsTruncated |-> truncated,
            NextKeyMarker |-> IF truncated THEN page[n].Key ELSE Nil,
            NextVersionIdMarker |-> IF truncated THEN page[n].VersionId ELSE NilVersion]
        : n \in sizes}

\* CopyObject of version v of key k onto key k: a new latest version with the
\* content of v, stamped with the backend clock t.
ClientCopy(b, k, v, t) ==
    [b EXCEPT ![k] = Append(@, [Operation |-> OperationTypePut, Timestamp |-> t,
                                ETag |-> b[k][v].ETag])]

\* DeleteObject naming the current version: the record is removed for good.
ClientDeleteVersion(b, k, t) ==
    [b EXCEPT ![k] = SubSeq(@, 1, Len(@) - 1)]

\* DeleteObject without a version id on a versioned bucket: a new delete marker.
ClientDelete(b, k, t) ==
    [b EXCEPT ![k] = Append(@, [Operation |-> OperationTypeDelete, Timestamp |-> t,
                                ETag |-> NoETag])]

\* ------------------------------------------------------------ ObjectVersionMap
\* One pass of the insertion sort of slices.SortFunc: x moves left past every
\* element whose Timestamp is after its own.
RECURSIVE InsertSorted(_, _)
InsertSorted(s, x) ==
    IF s = <<>> THEN <<x>>
    ELSE IF x.Timestamp < s[Len(s)].Timestamp
         THEN Append(InsertSorted(SubSeq(s, 1, Len(s) - 1), x), s[Len(s)])
         ELSE Append(s, x)

\* The history left as appended, without the sort.
SortFuncNone(s) == s

RECURSIVE SortFunc(_)
\* slices.SortFunc by Timestamp (insertion sort for slices of up to 12 elements).
SortFunc(s) ==
    IF Len(s) <= 1 THEN s
    ELSE InsertSorted(SortFunc(SubSeq(s, 1, Len(s) - 1)), s[Len(s)])

Add(ovm, k, versionID, operation, timestamp, isLatest, etag) ==
    LET sl == IF k \in DOMAIN ovm THEN ovm[k] ELSE <<>>
        sorted == SortFunc(Append(sl, [VersionID |-> versionID, Operation |-> operation,
                                       Timestamp |-> timestamp, IsLatest |-> isLatest,
                                       ETag |-> etag]))
    IN [x \in DOMAIN ovm \cup {k} |-> IF x = k THEN sorted ELSE ovm[x]]

RECURSIVE AddVersions(_, _)
\* for _, v := range versions.Versions { Add(..., OperationTypePut, ..., *v.ETag) }
AddVersions(ovm, vs) ==
    IF vs = <<>> THEN ovm
    ELSE AddVersions(Add(ovm, vs[1].Key, vs[1].VersionId, OperationTypePut,
                         vs[1].LastModified, vs[1].IsLatest, vs[1].ETag), Tail(vs))

RECURSIVE AddDeleteMarkers(_, _)
\* for _, v := range versions.DeleteMarkers { Add(..., OperationTypeDelete, ..., "") }
AddDeleteMarkers(ovm, ds) ==
    IF ds = <<>> THEN ovm
    ELSE AddDeleteMarkers(Add(ovm, ds[1].Key, ds[1].VersionId, OperationTypeDelete,
                              ds[1].LastModified, ds[1].IsLatest, NoETag), Tail(ds))

\* firstMapKey without the sort: whichever key the map yields first.
firstMapKeyUnsorted(m) == CHOOSE k \in DOMAIN m : TRUE

\* firstMapKey returning the last key of the map instead of the first.
firstMapKeyLast(m) == CHOOSE k \in DOMAIN m : \A y \in DOMAIN m \ {k} : KeyLess(y, k)

firstMapKey(m) == CHOOSE k \in DOMAIN m : \A y \in DOMAIN m \ {k} : KeyLess(k, y)

\* The map with no entry: make(ObjectVersionMap).
EmptyMap == [x \in {} |-> <<>>]

\* The loop condition with "< 1": a single pending key is returned at once.
MustLoadOnlyWhenEmpty(more, m) == more /\ Cardinality(DOMAIN m) < 1

\* The loop condition with "<= 2": a page is fetched on top of two pending keys.
MustLoadUpToTwo(more, m) == more /\ Cardinality(DOMAIN m) <= 2

\* The loop test without the flag: it.loadMore is not consulted.
MustLoadIgnoringFlag(more, m) == Cardinality(DOMAIN m) <= 1

\* The loop condition of ListIterator.Next.
MustLoad(more, m) == more /\ Cardinality(DOMAIN m) <= 1

\* ------------------------------------------------------------ main
RECURSIVE ScanAtOrEqual(_, _, _)
\* The scan with "not after" in place of "before".
ScanAtOrEqual(vs, ref, acc) ==
    IF vs = <<>> THEN acc
    ELSE ScanAtOrEqual(Tail(vs), ref, IF vs[1].Timestamp <= ref THEN vs[1] ELSE acc)

RECURSIVE ScanAt(_, _, _)
\* if v.Timestamp.Before(referenceTimestamp) { versionAtTimestamp = v }
ScanAt(vs, ref, acc) ==
    IF vs = <<>> THEN acc
    ELSE ScanAt(Tail(vs), ref, IF vs[1].Timestamp < ref THEN vs[1] ELSE acc)

RECURSIVE ScanLatest(_, _)
\* if v.IsLatest { latestVersion = v }
ScanLatest(vs, acc) ==
    IF vs = <<>> THEN acc
    ELSE ScanLatest(Tail(vs), IF vs[1].IsLatest THEN vs[1] ELSE acc)

\* latestVersion.ETag == versionAtTimestamp.ETag
SameETag(latest, at) == latest.ETag = at.ETag

\* The test without its second operand: a delete marker is copied.
WantsDeleteOnlyWhenAbsent(at) == at = ZeroObjectVersion

\* versionAtTimestamp == s3.ZeroObjectVersion || versionAtTimestamp.Operation == DELETE
WantsDelete(at) == at = ZeroObjectVersion \/ at.Operation = OperationTypeDelete

\* ------------------------------------------------------------ state machine
\* The prefix argument of s3Client.List in main: nil.
ListPrefixArg == Nil

\* Client.List: the fresh iterator.
List(p) ==
    [prefix |-> p, loadMore |-> TRUE, keyMarker |-> Nil, versionIdMarker |-> NilVersion,
     pageObjectsWithVersions |-> EmptyMap]

Init ==
    /\ bucket \in CoreBuckets \cup WideBuckets
    /\ now \in MaxTimestamp(bucket)..MaxNow
    /\ prefix \in Prefixes
    /\ referenceTimestamp \in Refs
    /\ run = 1
    /\ pc = "next"
    /\ itPrefix = List(ListPrefixArg).prefix
    /\ loadMore = List(ListPrefixArg).loadMore
    /\ keyMarker = List(ListPrefixArg).keyMarker
    /\ versionIdMarker = List(ListPrefixArg).versionIdMarker
    /\ pageObjectsWithVersions = List(ListPrefixArg).pageObjectsWithVersions
    /\ key = Nil
    /\ versions = <<>>
    /\ versionAtTimestamp = ZeroObjectVersion
    /\ latestVersion = ZeroObjectVersion
    /\ bucket0 = bucket
    /\ firstRef = referenceTimestamp
    /\ orig = bucket
    /\ firstStart = now
    /\ emitted = <<>>
    /\ log = <<>>
    /\ spanned = {}
    /\ lastPage = {}
    /\ lastReq = <<>>
    /\ lastResp = <<>>
    /\ again = "none"

\* The fetch that keeps the key cursor of the response and drops its version
\* cursor.
NextFetchDropsVersionMarker ==
    /\ pc = "next"
    /\ MustLoad(loadMore, pageObjectsWithVersions)
    /\ \E r \in ListObjectVersions(bucket, itPrefix, keyMarker, versionIdMarker) :
          /\ loadMore' = r.IsTruncated
          /\ keyMarker' = r.NextKeyMarker
          /\ versionIdMarker' = NilVersion
          /\ pageObjectsWithVersions' =
                AddDeleteMarkers(AddVersions(pageObjectsWithVersions, r.Versions),
                                 r.DeleteMarkers)
          /\ lastReq' = <<[KeyMarker |-> keyMarker, VersionIdMarker |-> versionIdMarker]>>
          /\ lastResp' = <<[IsTruncated |-> r.IsTruncated, NextKeyMarker |-> r.NextKeyMarker,
                           NextVersionIdMarker |-> r.NextVersionIdMarker]>>
          /\ lastPage' = {r.Versions[i].Key : i \in 1..Len(r.Versions)}
                          \cup {r.DeleteMarkers[i].Key : i \in 1..Len(r.DeleteMarkers)}
          /\ spanned' = spanned \cup (lastPage' \cap (DOMAIN pageObjectsWithVersions))
    /\ UNCHANGED <<bucket, now, prefix, referenceTimestamp, run, pc, itPrefix, key,
                   versions, versionAtTimestamp, latestVersion, bucket0, firstRef, orig,
                   firstStart, again, emitted, log>>

\* One iteration of the loop of ListIterator.Next: a page is fetched, the cursors
\* and the flag are taken from the response and every entry is added to the map.
NextFetch ==
    /\ pc = "next"
    /\ MustLoad(loadMore, pageObjectsWithVersions)
    /\ \E r \in ListObjectVersions(bucket, itPrefix, keyMarker, versionIdMarker) :
          /\ loadMore' = r.IsTruncated
          /\ keyMarker' = r.NextKeyMarker
          /\ versionIdMarker' = r.NextVersionIdMarker
          /\ pageObjectsWithVersions' =
                AddDeleteMarkers(AddVersions(pageObjectsWithVersions, r.Versions),
                                 r.DeleteMarkers)
          /\ lastReq' = <<[KeyMarker |-> keyMarker, VersionIdMarker |-> versionIdMarker]>>
          /\ lastResp' = <<[IsTruncated |-> r.IsTruncated, NextKeyMarker |-> r.NextKeyMarker,
                           NextVersionIdMarker |-> r.NextVersionIdMarker]>>
          /\ lastPage' = {r.Versions[i].Key : i \in 1..Len(r.Versions)}
                          \cup {r.DeleteMarkers[i].Key : i \in 1..Len(r.DeleteMarkers)}
          /\ spanned' = spanned \cup (lastPage' \cap (DOMAIN pageObjectsWithVersions))
    /\ UNCHANGED <<bucket, now, prefix, referenceTimestamp, run, pc, itPrefix, key,
                   versions, versionAtTimestamp, latestVersion, bucket0, firstRef, orig,
                   firstStart, again, emitted, log>>

\* The failing fetch with the (zero) response stored before the error test.
NextFetchErrorStoresResponse ==
    /\ pc = "next"
    /\ MustLoad(loadMore, pageObjectsWithVersions)
    /\ pc' = "failed"
    /\ loadMore' = FALSE
    /\ keyMarker' = Nil
    /\ versionIdMarker' = NilVersion
    /\ UNCHANGED <<bucket, now, prefix, referenceTimestamp, run, itPrefix,
                   pageObjectsWithVersions, key, versions, versionAtTimestamp,
                   latestVersion, bucket0, firstRef, orig, firstStart, again, lastReq,
                   lastResp, emitted, log, spanned, lastPage>>

\* ListObjectVersions fails: Next returns the error and main exits with 1.
NextFetchError ==
    /\ pc = "next"
    /\ MustLoad(loadMore, pageObjectsWithVersions)
    /\ pc' = "failed"
    /\ UNCHANGED <<bucket, now, prefix, referenceTimestamp, run, itPrefix, loadMore,
                   keyMarker, versionIdMarker, pageObjectsWithVersions, key, versions,
                   versionAtTimestamp, latestVersion, bucket0, firstRef, orig,
                   firstStart, again, lastReq, lastResp, emitted, log, spanned,
                   lastPage>>

\* Next rewinding the iterator when it returns io.EOF.
NextReturnEOFRewinds ==
    /\ pc = "next"
    /\ ~MustLoad(loadMore, pageObjectsWithVersions)
    /\ DOMAIN pageObjectsWithVersions = {}
    /\ pc' = "done"
    /\ loadMore' = TRUE
    /\ keyMarker' = Nil
    /\ versionIdMarker' = NilVersion
    /\ UNCHANGED <<bucket, now, prefix, referenceTimestamp, run, itPrefix,
                   pageObjectsWithVersions, key, versions, versionAtTimestamp,
                   latestVersion, bucket0, firstRef, orig, firstStart, again, lastReq,
                   lastResp, emitted, log, spanned, lastPage>>

\* Next returns io.EOF and main leaves its loop.
NextReturnEOF ==
    /\ pc = "next"
    /\ ~MustLoad(loadMore, pageObjectsWithVersions)
    /\ DOMAIN pageObjectsWithVersions = {}
    /\ pc' = "done"
    /\ UNCHANGED <<bucket, now, prefix, referenceTimestamp, run, itPrefix, loadMore,
                   keyMarker, versionIdMarker, pageObjectsWithVersions, key, versions,
                   versionAtTimestamp, latestVersion, bucket0, firstRef, orig,
                   firstStart, again, lastReq, lastResp, emitted, log, spanned,
                   lastPage>>

\* Next returning the first key of the map without deleting its entry.
NextReturnKeyKeepsEntry ==
    /\ pc = "next"
    /\ ~MustLoad(loadMore, pageObjectsWithVersions)
    /\ DOMAIN pageObjectsWithVersions # {}
    /\ LET k == firstMapKey(pageObjectsWithVersions)
       IN /\ key' = k
          /\ versions' = pageObjectsWithVersions[k]
          /\ pageObjectsWithVersions' = pageObjectsWithVersions
          /\ emitted' = Append(emitted, k)
    /\ pc' = "check"
    /\ UNCHANGED <<bucket, now, prefix, referenceTimestamp, run, itPrefix, loadMore,
                   keyMarker, versionIdMarker, versionAtTimestamp, latestVersion,
                   bucket0, firstRef, orig, firstStart, again, lastReq, lastResp, log,
                   spanned, lastPage>>

\* Next returns the first key of the map with its history and deletes the entry.
NextReturnKey ==
    /\ pc = "next"
    /\ ~MustLoad(loadMore, pageObjectsWithVersions)
    /\ DOMAIN pageObjectsWithVersions # {}
    /\ LET k == firstMapKey(pageObjectsWithVersions)
       IN /\ key' = k
          /\ versions' = pageObjectsWithVersions[k]
          /\ pageObjectsWithVersions' =
                [x \in DOMAIN pageObjectsWithVersions \ {k} |-> pageObjectsWithVersions[x]]
          /\ emitted' = Append(emitted, k)
    /\ pc' = "check"
    /\ UNCHANGED <<bucket, now, prefix, referenceTimestamp, run, itPrefix, loadMore,
                   keyMarker, versionIdMarker, versionAtTimestamp, latestVersion,
                   bucket0, firstRef, orig, firstStart, again, lastReq, lastResp, log,
                   spanned, lastPage>>

\* main: the scan of the history and the comparison of the two etags.
Check ==
    /\ pc = "check"
    /\ versionAtTimestamp' = ScanAt(versions, referenceTimestamp, ZeroObjectVersion)
    /\ latestVersion' = ScanLatest(versions, ZeroObjectVersion)
    /\ IF SameETag(latestVersion', versionAtTimestamp')
       THEN /\ pc' = "next"
            /\ log' = Append(log, [Key |-> key, Action |-> "skip", Version |-> 0, Ok |-> TRUE])
       ELSE /\ pc' = "mutate"
            /\ log' = log
    /\ UNCHANGED <<bucket, now, prefix, referenceTimestamp, run, itPrefix, loadMore,
                   keyMarker, versionIdMarker, pageObjectsWithVersions, key, versions,
                   bucket0, firstRef, orig, firstStart, again, lastReq, lastResp,
                   emitted, spanned, lastPage>>

\* main: s3Client.Delete(ctx, bucket, key) succeeds.
MainDelete ==
    /\ pc = "mutate"
    /\ WantsDelete(versionAtTimestamp)
    /\ \E t \in now..MaxNow :
          /\ bucket' = ClientDelete(bucket, key, t)
          /\ now' = t
    /\ log' = Append(log, [Key |-> key, Action |-> "delete", Version |-> 0, Ok |-> TRUE])
    /\ pc' = "next"
    /\ UNCHANGED <<prefix, referenceTimestamp, run, itPrefix, loadMore, keyMarker,
                   versionIdMarker, pageObjectsWithVersions, key, versions,
                   versionAtTimestamp, latestVersion, bucket0, firstRef, orig,
                   firstStart, again, lastReq, lastResp, emitted, spanned, lastPage>>

\* main: s3Client.Copy(ctx, bucket, bucket, key, versionAtTimestamp.VersionID) succeeds.
MainCopy ==
    /\ pc = "mutate"
    /\ ~WantsDelete(versionAtTimestamp)
    /\ \E t \in now..MaxNow :
          /\ bucket' = ClientCopy(bucket, key, versionAtTimestamp.VersionID, t)
          /\ now' = t
    /\ log' = Append(log, [Key |-> key, Action |-> "copy",
                           Version |-> versionAtTimestamp.VersionID, Ok |-> TRUE])
    /\ pc' = "next"
    /\ UNCHANGED <<prefix, referenceTimestamp, run, itPrefix, loadMore, keyMarker,
                   versionIdMarker, pageObjectsWithVersions, key, versions,
                   versionAtTimestamp, latestVersion, bucket0, firstRef, orig,
                   firstStart, again, lastReq, lastResp, emitted, spanned, lastPage>>

\* The failing delete or copy that is logged and then passed over.
MainMutationErrorContinues ==
    /\ pc = "mutate"
    /\ log' = Append(log, [Key |-> key,
                           Action |-> IF WantsDelete(versionAtTimestamp) THEN "delete" ELSE "copy",
                           Version |-> IF WantsDelete(versionAtTimestamp) THEN 0
                                       ELSE versionAtTimestamp.VersionID,
                           Ok |-> FALSE])
    /\ pc' = "next"
    /\ UNCHANGED <<bucket, now, prefix, referenceTimestamp, run, itPrefix, loadMore,
                   keyMarker, versionIdMarker, pageObjectsWithVersions, key, versions,
                   versionAtTimestamp, latestVersion, bucket0, firstRef, orig,
                   firstStart, again, lastReq, lastResp, emitted, spanned, lastPage>>

\* main: the delete or the copy returns an error and main exits with 1.
MainMutationError ==
    /\ pc = "mutate"
    /\ log' = Append(log, [Key |-> key,
                           Action |-> IF WantsDelete(versionAtTimestamp) THEN "delete" ELSE "copy",
                           Version |-> IF WantsDelete(versionAtTimestamp) THEN 0
                                       ELSE versionAtTimestamp.VersionID,
                           Ok |-> FALSE])
    /\ pc' = "failed"
    /\ UNCHANGED <<bucket, now, prefix, referenceTimestamp, run, itPrefix, loadMore,
                   keyMarker, versionIdMarker, pageObjectsWithVersions, key, versions,
                   versionAtTimestamp, latestVersion, bucket0, firstRef, orig,
                   firstStart, again, lastReq, lastResp, emitted, spanned, lastPage>>

\* The tool is started again on the same bucket after a successful run.
Restart ==
    /\ pc = "done"
    /\ run < MaxRuns
    /\ run' = run + 1
    /\ referenceTimestamp' \in Refs
    /\ pc' = "next"
    /\ itPrefix' = List(ListPrefixArg).prefix
    /\ loadMore' = List(ListPrefixArg).loadMore
    /\ keyMarker' = List(ListPrefixArg).keyMarker
    /\ versionIdMarker' = List(ListPrefixArg).versionIdMarker
    /\ pageObjectsWithVersions' = List(ListPrefixArg).pageObjectsWithVersions
    /\ key' = Nil
    /\ versions' = <<>>
    /\ versionAtTimestamp' = ZeroObjectVersion
    /\ latestVersion' = ZeroObjectVersion
    /\ bucket0' = bucket
    /\ emitted' = <<>>
    /\ log' = <<>>
    /\ spanned' = {}
    /\ lastPage' = {}
    /\ lastReq' = <<>>
    /\ lastResp' = <<>>
    /\ again' = "none"
    /\ UNCHANGED <<bucket, now, prefix, firstRef, orig, firstStart>>

\* A caller that calls Next once more after it returned io.EOF (main does not):
\* the call fetches when the loop condition holds, returns io.EOF when the map
\* is empty and returns the first key otherwise.
NextAgain ==
    /\ pc = "done"
    /\ IF MustLoad(loadMore, pageObjectsWithVersions)
       THEN /\ \E r \in ListObjectVersions(bucket, itPrefix, keyMarker, versionIdMarker) :
                  /\ loadMore' = r.IsTruncated
                  /\ keyMarker' = r.NextKeyMarker
                  /\ versionIdMarker' = r.NextVersionIdMarker
                  /\ pageObjectsWithVersions' =
                        AddDeleteMarkers(AddVersions(pageObjectsWithVersions, r.Versions),
                                         r.DeleteMarkers)
                  /\ lastReq' = <<[KeyMarker |-> keyMarker,
                                   VersionIdMarker |-> versionIdMarker]>>
                  /\ lastResp' = <<[IsTruncated |-> r.IsTruncated,
                                    NextKeyMarker |-> r.NextKeyMarker,
                                    NextVersionIdMarker |-> r.NextVersionIdMarker]>>
            /\ again' = "fetch"
            /\ UNCHANGED <<key, versions, emitted>>
       ELSE IF DOMAIN pageObjectsWithVersions = {}
            THEN /\ again' = "eof"
                 /\ UNCHANGED <<loadMore, keyMarker, versionIdMarker,
                                pageObjectsWithVersions, key, versions, emitted,
                                lastReq, lastResp>>
            ELSE /\ key' = firstMapKey(pageObjectsWithVersions)
                 /\ versions' = pageObjectsWithVersions[key']
                 /\ pageObjectsWithVersions' =
                       [x \in DOMAIN pageObjectsWithVersions \ {key'} |->
                           pageObjectsWithVersions[x]]
                 /\ emitted' = Append(emitted, key')
                 /\ again' = "key"
                 /\ UNCHANGED <<loadMore, keyMarker, versionIdMarker, lastReq,
                                lastResp>>
    /\ UNCHANGED <<bucket, now, prefix, referenceTimestamp, run, pc, itPrefix,
                   versionAtTimestamp, latestVersion, bucket0, firstRef, orig,
                   firstStart, log, spanned, lastPage>>

Next ==
    \/ NextFetch
    \/ NextFetchError
    \/ NextReturnEOF
    \/ NextReturnKey
    \/ Check
    \/ MainDelete
    \/ MainCopy
    \/ MainMutationError
    \/ Restart
    \/ NextAgain

Spec == Init /\ [][Next]_vars

\* ------------------------------------------------- one run without failures
\* The steps of one run in which no ListObjectVersions, CopyObject or
\* DeleteObject call fails.
NextNoFailure ==
    \/ NextFetch
    \/ NextReturnEOF
    \/ NextReturnKey
    \/ Check
    \/ MainDelete
    \/ MainCopy

\* main is a sequential program: while a step is possible, one is taken.
SpecNoFailure == Init /\ [][NextNoFailure]_vars /\ WF_vars(NextNoFailure)

\* ------------------------------------------- ObjectVersionMap.Add on its own
\* Keys given to Add when it is called in arbitrary order: "a" and "b".
AddKeys == {<<1>>, <<2>>}

\* Number of records held by map m.
MapSize(m) == SumLen([k \in AllKeys |-> IF k \in DOMAIN m THEN m[k] ELSE <<>>], AllKeys)

\* An empty ObjectVersionMap, as made by Client.List; nothing else is in use.
InitAdd ==
    /\ bucket = [k \in AllKeys |-> <<>>]
    /\ now = 1
    /\ prefix = Nil
    /\ referenceTimestamp = 1
    /\ run = 1
    /\ pc = "add"
    /\ itPrefix = List(ListPrefixArg).prefix
    /\ loadMore = FALSE
    /\ keyMarker = List(ListPrefixArg).keyMarker
    /\ versionIdMarker = List(ListPrefixArg).versionIdMarker
    /\ pageObjectsWithVersions = List(ListPrefixArg).pageObjectsWithVersions
    /\ key = Nil
    /\ versions = <<>>
    /\ versionAtTimestamp = ZeroObjectVersion
    /\ latestVersion = ZeroObjectVersion
    /\ bucket0 = bucket
    /\ firstRef = referenceTimestamp
    /\ orig = bucket
    /\ firstStart = now
    /\ emitted = <<>>
    /\ log = <<>>
    /\ spanned = {}
    /\ lastPage = {}
    /\ lastReq = <<>>
    /\ lastResp = <<>>
    /\ again = "none"

\* One call of ObjectVersionMap.Add with any key, operation and timestamp; the
\* version id counts the records of the map, so it tells the order of arrival.
AddCall ==
    /\ pc = "add"
    /\ MapSize(pageObjectsWithVersions) < MaxAdds
    /\ \E k \in AddKeys, t \in 1..MaxNow, op \in {OperationTypePut, OperationTypeDelete} :
          pageObjectsWithVersions' =
              Add(pageObjectsWithVersions, k, MapSize(pageObjectsWithVersions) + 1, op, t,
                  FALSE, IF op = OperationTypePut THEN 1 ELSE NoETag)
    /\ UNCHANGED <<bucket, now, prefix, referenceTimestamp, run, pc, itPrefix, loadMore,
                   keyMarker, versionIdMarker, key, versions, versionAtTimestamp,
                   latestVersion, bucket0, firstRef, orig, firstStart, again, lastReq,
                   lastResp, emitted, log, spanned, lastPage>>

\* ListIterator.Next on a map that is not loading: the first key and its
\* history are taken out of the map and returned.
AddReturn ==
    /\ pc = "add"
    /\ ~MustLoad(loadMore, pageObjectsWithVersions)
    /\ DOMAIN pageObjectsWithVersions # {}
    /\ key' = firstMapKey(pageObjectsWithVersions)
    /\ versions' = pageObjectsWithVersions[key']
    /\ pageObjectsWithVersions' =
          [x \in DOMAIN pageObjectsWithVersions \ {key'} |-> pageObjectsWithVersions[x]]
    /\ UNCHANGED <<bucket, now, prefix, referenceTimestamp, run, pc, itPrefix, loadMore,
                   keyMarker, versionIdMarker, versionAtTimestamp, latestVersion,
                   bucket0, firstRef, orig, firstStart, again, lastReq, lastResp,
                   emitted, log, spanned, lastPage>>

NextAdd ==
    \/ AddCall
    \/ AddReturn

SpecAdd == InitAdd /\ [][NextAdd]_vars

\* ------------------------------------------------------------ properties
\* The ObjectVersion that record i of key k of bucket b is listed as.
ObjectVersionOf(b, k, i) ==
    [VersionID |-> i, Operation |-> b[k][i].Operation, Timestamp |-> b[k][i].Timestamp,
     IsLatest |-> (i = Len(b[k])), ETag |-> b[k][i].ETag]

RecordsOf(b, k) == {ObjectVersionOf(b, k, i) : i \in 1..Len(b[k])}

Range(s) == {s[i] : i \in 1..Len(s)}

\* Key k arrived in more than one page of the current run.
SpansPages(k) == k \in spanned

\* C1: whenever Next returns a key, the returned history holds every version
\* record and every delete-marker record the backend holds for that key, however
\* the listing was split into pages.
C1_HistoryComplete ==
    pc = "check" =>
        /\ Range(versions) = RecordsOf(bucket, key)
        /\ Len(versions) = Len(bucket[key])

\* C1 witness: a key is returned whose records arrived in two different pages.
C1_Witness ==
    pc = "check" /\ SpansPages(key) /\ Len(versions) >= 2 /\ loadMore

\* C2: when a scan ends with end-of-sequence, every key that has a record was
\* returned by Next exactly once; at no point of a scan is a key returned twice.
C2_EachKeyOnce ==
    /\ \A i \in 1..Len(emitted) : \A j \in 1..Len(emitted) :
          emitted[i] = emitted[j] => i = j
    /\ pc = "done" => Range(emitted) = {k \in AllKeys : Len(bucket0[k]) > 0}

\* C2 witness: a scan ended after returning several keys, one of which had its
\* records split over a page boundary.
C2_Witness ==
    /\ pc = "done"
    /\ Len(emitted) >= 2
    /\ \E k \in Range(emitted) : SpansPages(k)

\* What an ordinary read of a key with version stack h sees: the etag of the
\* latest record, or NoETag ("not present") for no record or a delete marker.
Visible(h) ==
    IF h = <<>> THEN NoETag
    ELSE IF h[Len(h)].Operation = OperationTypeDelete THEN NoETag
    ELSE h[Len(h)].ETag

\* The state of a key with version stack h at time ref: what the last record
\* created strictly before ref made visible.
StateAt(h, ref) ==
    LET before == {i \in 1..Len(h) : h[i].Timestamp < ref}
    IN IF before = {} THEN NoETag
       ELSE LET i == CHOOSE x \in before : \A y \in before : y <= x
            IN IF h[i].Operation = OperationTypeDelete THEN NoETag ELSE h[i].ETag

\* C3: after a run with reference timestamp R ended successfully, the visible
\* state of every key is the state it had at R in its history before the run.
C3_RestoredToReference ==
    pc = "done" =>
        \A k \in AllKeys : Visible(bucket[k]) = StateAt(bucket0[k], referenceTimestamp)

\* C4: a second run with the same reference timestamp as the run before it
\* decides Skip for every key and issues no copy and no delete.
C4_SecondRunSkips ==
    (run = 2 /\ referenceTimestamp = firstRef) =>
        /\ \A i \in 1..Len(log) : log[i].Action = "skip"
        /\ pc # "mutate"
        /\ bucket = bucket0

\* Number of successful copies and deletes of the current run.
RECURSIVE Mutations(_)
Mutations(l) ==
    IF l = <<>> THEN 0
    ELSE (IF l[1].Action # "skip" /\ l[1].Ok THEN 1 ELSE 0) + Mutations(Tail(l))

\* C5: a run never removes or rewrites a record: every record a key had when
\* the run started is still there, unchanged and at the same place, and every
\* successful copy or delete added exactly one record on top of a stack.
C5_HistoryPreserved ==
    /\ \A k \in AllKeys :
          /\ Len(bucket[k]) >= Len(bucket0[k])
          /\ SubSeq(bucket[k], 1, Len(bucket0[k])) = bucket0[k]
    /\ SumLen(bucket, AllKeys) = SumLen(bucket0, AllKeys) + Mutations(log)

\* C5 witness: a run has issued both a copy and a delete on a bucket with records.
C5_Witness ==
    /\ \E i \in 1..Len(log) : log[i].Action = "copy" /\ log[i].Ok
    /\ \E i \in 1..Len(log) : log[i].Action = "delete" /\ log[i].Ok
    /\ \E k \in AllKeys : Len(bucket0[k]) >= 2 /\ Len(bucket[k]) > Len(bucket0[k])

\* The history of key k when all its entries arrive in one page.
OnePageHistory(b, k) ==
    AddDeleteMarkers(AddVersions(EmptyMap, SelectSeq(KeyEntries(b, k), IsPut)),
                     SelectSeq(KeyEntries(b, k), IsMarker))[k]

\* C6: the history returned for a key does not depend on how the listing was
\* split into pages: it is the history the key gets from an unsplit listing,
\* also for keys with several records of the same timestamp.
C6_PartitionIndependent ==
    pc = "check" => versions = OnePageHistory(bucket, key)

\* The record of history vs that has IsLatest set.
LatestOf(vs) ==
    IF \E i \in 1..Len(vs) : vs[i].IsLatest
    THEN vs[CHOOSE i \in 1..Len(vs) : vs[i].IsLatest]
    ELSE ZeroObjectVersion

\* The last record of history vs that is strictly before ref; the zero
\* ObjectVersion when there is none.
AtReference(vs, ref) ==
    LET before == {i \in 1..Len(vs) : vs[i].Timestamp < ref}
    IN IF before = {} THEN ZeroObjectVersion
       ELSE vs[CHOOSE i \in before : \A j \in before : j <= i]

\* The action the decision rule names for history vs and reference ref.
Decision(vs, ref) ==
    LET at == AtReference(vs, ref)
        cur == LatestOf(vs)
    IN IF cur.ETag = at.ETag
       THEN [Action |-> "skip", Version |-> 0]
       ELSE IF at = ZeroObjectVersion \/ at.Operation = OperationTypeDelete
            THEN [Action |-> "delete", Version |-> 0]
            ELSE [Action |-> "copy", Version |-> at.VersionID]

Last(s) == s[Len(s)]

\* The key returned last has been decided on.
Decided == pc # "check" /\ log # <<>> /\ Last(log).Key = key

ExactlyOneLatest(vs) == Cardinality({i \in 1..Len(vs) : vs[i].IsLatest}) = 1

\* C7: for a sorted history with exactly one latest record, the key is skipped
\* without a mutation when the latest etag equals the etag of the version at the
\* reference; otherwise the key's current version is deleted when the version at
\* the reference is absent or a delete marker; otherwise the version at the
\* reference is copied onto the same key.
C7_DecisionRule ==
    /\ (pc = "mutate" /\ ExactlyOneLatest(versions)) =>
          Decision(versions, referenceTimestamp).Action # "skip"
    /\ (Decided /\ ExactlyOneLatest(versions)) =>
          /\ Last(log).Action = Decision(versions, referenceTimestamp).Action
          /\ Last(log).Version = Decision(versions, referenceTimestamp).Version
          /\ Last(log).Action = "skip" => bucket[key] = bucket0[key]
          /\ (Last(log).Action = "delete" /\ Last(log).Ok) =>
                /\ Len(bucket[key]) = Len(bucket0[key]) + 1
                /\ Last(bucket[key]).Operation = OperationTypeDelete
          /\ (Last(log).Action = "copy" /\ Last(log).Ok) =>
                /\ Len(bucket[key]) = Len(bucket0[key]) + 1
                /\ Last(bucket[key]).Operation = OperationTypePut
                /\ Last(bucket[key]).ETag = bucket0[key][Last(log).Version].ETag
    /\ \A k \in AllKeys : k \notin Range(emitted) => bucket[k] = bucket0[k]

\* C7 witness: a key whose version at the reference is a delete marker and
\* whose latest record is a put has been deleted.
C7_Witness ==
    /\ Decided
    /\ Last(log).Action = "delete" /\ Last(log).Ok
    /\ AtReference(versions, referenceTimestamp).Operation = OperationTypeDelete
    /\ LatestOf(versions).Operation = OperationTypePut

\* C8: the version at the reference is the last record of the ascending history
\* that is strictly before the reference timestamp: a record at the reference
\* timestamp is never taken, and with no record before it the version is the
\* zero ObjectVersion.
C8_StrictlyBefore ==
    (pc = "mutate" \/ Decided) =>
        /\ versionAtTimestamp = AtReference(versions, referenceTimestamp)
        /\ versionAtTimestamp.Timestamp < referenceTimestamp
        /\ \A i \in 1..Len(versions) :
              versions[i].Timestamp < referenceTimestamp =>
                  versions[i].Timestamp <= versionAtTimestamp.Timestamp
        /\ (\A i \in 1..Len(versions) : versions[i].Timestamp >= referenceTimestamp) =>
              versionAtTimestamp = ZeroObjectVersion

\* C8 witness: the history holds a record at the reference timestamp and an
\* earlier one, and the earlier one was taken.
C8_Witness ==
    /\ (pc = "mutate" \/ Decided)
    /\ \E i \in 1..Len(versions) : versions[i].Timestamp = referenceTimestamp
    /\ versionAtTimestamp # ZeroObjectVersion

\* C9: in a run started with a key prefix filter, only keys that start with the
\* prefix are listed, and no copy or delete is issued for a key outside it.
C9_PrefixRespected ==
    /\ \A i \in 1..Len(emitted) : HasPrefix(emitted[i], prefix)
    /\ \A i \in 1..Len(log) : log[i].Action # "skip" => HasPrefix(log[i].Key, prefix)

\* C10 as stated: the pending set never holds more than MaxKeys distinct keys.
C10_AtMostPageSize ==
    Cardinality(DOMAIN pageObjectsWithVersions) <= MaxKeys

\* C10 as amended: the pending set never holds more than MaxKeys + 1 distinct
\* keys: the one key left over by the pages before, and one key for every entry
\* of the newest page.
C10_AtMostPageSizePlusOne ==
    Cardinality(DOMAIN pageObjectsWithVersions) <= MaxKeys + 1

\* C10 witness: the pending set holds MaxKeys + 1 keys and the newest page was full.
C10_Witness ==
    /\ Cardinality(DOMAIN pageObjectsWithVersions) = MaxKeys + 1
    /\ Cardinality(lastPage) = MaxKeys

\* A copy or a delete of the current run has failed.
MutationFailed == log # <<>> /\ ~Last(log).Ok

\* A page fetch of the current run has failed.
FetchFailed == pc = "failed" /\ ~MutationFailed

\* C11: a failing copy or delete ends the run in failure at once: the step that
\* fails leaves the bucket alone and exits, and nothing happens after it: no
\* page is fetched, no copy or delete is issued, the run never ends with success.
C11_MutationFailureStops ==
    [][/\ (log' # log /\ log' # <<>> /\ ~Last(log').Ok) => (pc' = "failed" /\ bucket' = bucket)
       /\ MutationFailed => UNCHANGED vars]_vars

\* C11 witness: a copy or delete failed while pages and pending keys remained.
C11_Witness ==
    /\ MutationFailed
    /\ pc = "failed"
    /\ loadMore
    /\ DOMAIN pageObjectsWithVersions # {}

\* C12: a failing page fetch leaves the pending set, both cursors and the
\* more-pages flag as they were, and ends the run in failure: no copy, no
\* delete and no fetch follows.
C12_FetchFailureStops ==
    [][/\ (pc = "next" /\ pc' = "failed") =>
             /\ pageObjectsWithVersions' = pageObjectsWithVersions
             /\ keyMarker' = keyMarker
             /\ versionIdMarker' = versionIdMarker
             /\ loadMore' = loadMore
             /\ bucket' = bucket
             /\ log' = log
       /\ FetchFailed => UNCHANGED vars]_vars

\* C12 witness: a fetch failed in the middle of a scan, with a key pending and
\* a cursor set.
C12_Witness ==
    /\ FetchFailed
    /\ keyMarker # Nil
    /\ DOMAIN pageObjectsWithVersions # {}
    /\ emitted # <<>>

RECURSIVE SplitHistories(_, _)
\* The maps Next can build from the entries es, over every split of es into
\* pages of 1 to MaxKeys entries, starting from map m.
SplitHistories(m, es) ==
    IF es = <<>> THEN {m}
    ELSE UNION {LET page == SubSeq(es, 1, n)
                IN SplitHistories(AddDeleteMarkers(AddVersions(m, SelectSeq(page, IsPut)),
                                                   SelectSeq(page, IsMarker)),
                                  SubSeq(es, n + 1, Len(es)))
                : n \in 1..Min(MaxKeys, Len(es))}

\* What main leaves visible for key k of bucket b when Next returned history
\* vs for it and the reference is ref.
RestoreOutcome(b, k, vs, ref) ==
    LET at == ScanAt(vs, ref, ZeroObjectVersion)
        cur == ScanLatest(vs, ZeroObjectVersion)
    IN IF SameETag(cur, at) THEN Visible(b[k])
       ELSE IF WantsDelete(at) THEN Visible(ClientDelete(b, k, now)[k])
            ELSE Visible(ClientCopy(b, k, at.VersionID, now)[k])

\* The visible states of key k a single run with reference ref can leave
\* on bucket b.
SingleRestoreResults(b, k, ref) ==
    IF b[k] = <<>> THEN {Visible(b[k])}
    ELSE {RestoreOutcome(b, k, m[k], ref) : m \in SplitHistories(EmptyMap, KeyEntries(b, k))}

\* C13: after a successful run with reference R1 and a successful run with
\* reference R2, R2 earlier than the start of the first run, every key shows
\* what a single run with reference R2 leaves on the original bucket.
C13_SecondRestoreAsSingle ==
    (run = 2 /\ pc = "done" /\ referenceTimestamp < firstStart) =>
        \A k \in AllKeys :
            SingleRestoreResults(orig, k, referenceTimestamp) = {Visible(bucket[k])}

\* C14: whatever the order in which records are given to ObjectVersionMap.Add,
\* every history held by the map is non-decreasing by timestamp, and so is
\* every history returned by Next.
C14_HistoriesSorted ==
    /\ \A k \in DOMAIN pageObjectsWithVersions : Monotonic(pageObjectsWithVersions[k])
    /\ Monotonic(versions)

\* C14 witness: Next returned a history of three records in which a record
\* that arrived later stands before one that arrived earlier, and the map
\* holds such a history too.
C14_Witness ==
    /\ Len(versions) = 3
    /\ \E i \in 1..3 : \E j \in 1..3 : i < j /\ versions[i].VersionID > versions[j].VersionID
    /\ \E k \in DOMAIN pageObjectsWithVersions :
          /\ Len(pageObjectsWithVersions[k]) >= 2
          /\ pageObjectsWithVersions[k][1].VersionID > pageObjectsWithVersions[k][2].VersionID

\* C15: on a finite bucket whose listing ends with a non-truncated page, and
\* with no failing call, the run terminates: Next returns end-of-sequence and
\* the loop of main ends with success.
C15_RunTerminates == <>(pc = "done")

\* C15 witness: a run ended with success after the listing came in several
\* pages, three keys were returned and a copy or a delete was made.
C15_Witness ==
    /\ pc = "done"
    /\ Len(emitted) >= 3
    /\ spanned # {}
    /\ Mutations(log) >= 1

\* The scan of the current run is over zero objects.
EmptyScan == \A k \in AllKeys : bucket0[k] = <<>>

\* C16: on a scan over zero objects the first call of Next returns
\* end-of-sequence: it makes its one fetch, which brings nothing, and returns;
\* no key is returned, no copy and no delete is issued.
C16_EmptyScanEndsAtOnce ==
    [][EmptyScan =>
          /\ emitted' = <<>>
          /\ log' = <<>>
          /\ bucket' = bucket
          /\ (pc = "next" /\ loadMore) =>
                \/ pc' = "failed"
                \/ pc' = "next" /\ ~loadMore' /\ DOMAIN pageObjectsWithVersions' = {}
          /\ (pc = "next" /\ ~loadMore) => pc' = "done"]_vars

\* C16 witness: the first run over an empty bucket has ended with success.
C16_Witness ==
    /\ EmptyScan
    /\ run = 1
    /\ pc = "done"
    /\ ~loadMore

\* C17: the first fetch of a run carries no key cursor and no version cursor;
\* every later fetch carries the two next cursors of the response before it,
\* and that response was truncated: no fetch follows a non-truncated response.
C17_CursorChain ==
    [][(pc = "next" /\ pc' = "next") =>
          /\ lastReq' # <<>>
          /\ IF lastResp = <<>>
             THEN lastReq'[1] = [KeyMarker |-> Nil, VersionIdMarker |-> NilVersion]
             ELSE /\ lastResp[1].IsTruncated
                  /\ lastReq'[1] = [KeyMarker |-> lastResp[1].NextKeyMarker,
                                    VersionIdMarker |-> lastResp[1].NextVersionIdMarker]]_vars

\* C17 witness: a fetch whose key cursor and version cursor were both set was
\* answered with a non-truncated page, inside a key with several records.
C17_Witness ==
    /\ lastReq # <<>>
    /\ lastReq[1].KeyMarker # Nil
    /\ lastReq[1].VersionIdMarker > 1
    /\ lastResp # <<>>
    /\ ~lastResp[1].IsTruncated
    /\ lastReq[1].KeyMarker \in lastPage

\* A copy or a delete is issued in this step.
MutationIssued == log' # log /\ log' # <<>> /\ Last(log').Action # "skip"

\* C18: a run issues at most one copy or delete per key: it is issued for the
\* key Next returned last, no copy or delete was issued for that key before,
\* only that key changes in the bucket, and Next is called for the following
\* key only when the call has completed.
C18_OneMutationPerKey ==
    [][/\ MutationIssued =>
             /\ pc = "mutate"
             /\ emitted # <<>>
             /\ Last(log').Key = Last(emitted)
             /\ \A i \in 1..Len(log) : log[i].Action # "skip" => log[i].Key # Last(emitted)
             /\ pc' \in {"next", "failed"}
       /\ \A k \in AllKeys : bucket'[k] # bucket[k] =>
             /\ MutationIssued
             /\ k = Last(emitted)
       /\ (emitted' # emitted /\ emitted' # <<>>) =>
             /\ Len(log) = Len(emitted)
             /\ pc = "next"]_vars

\* C18 witness: copies or deletes were made for two keys of one run, and Next
\* has been called for a third.
C18_Witness ==
    /\ Mutations(log) >= 2
    /\ Len(emitted) >= 3
    /\ pc = "check"

\* C19: the keys returned by the successive calls of Next of one run are
\* strictly increasing in lexicographic order.
C19_KeysIncreasing ==
    \A i \in 1..Len(emitted) : \A j \in 1..Len(emitted) :
        i < j => KeyLess(emitted[i], emitted[j])

\* C19 witness: Next has returned all four keys, over a listing that came in
\* several pages with a key spread over two of them.
C19_Witness ==
    /\ Len(emitted) = Cardinality(AllKeys)
    /\ spanned # {}

\* C20: exhaustion is terminal: a call of Next made after Next returned
\* end-of-sequence returns end-of-sequence again, fetches no page, returns no
\* key and leaves the iterator as it was.
C20_ExhaustionTerminal ==
    [][(pc = "done" /\ pc' = "done") =>
          /\ again' = "eof"
          /\ UNCHANGED <<loadMore, keyMarker, versionIdMarker, pageObjectsWithVersions,
                         key, versions, emitted, lastReq, lastResp, bucket>>]_vars

\* C20 witness: Next was called again after a scan that returned keys and
\* fetched several pages had ended.
C20_Witness ==
    /\ again = "eof"
    /\ pc = "done"
    /\ Len(emitted) >= 2
    /\ lastReq # <<>>
    /\ lastReq[1].KeyMarker # Nil

====
